---- MODULE Spec2Model ----
(***************************************************************************)
(* A model of the copy trader: the main loop of copy_trade.py, change      *)
(* detection and snapshot persistence of holdings_source.py, and the       *)
(* conversion and the sell-then-buy order execution of schwab_api.py.      *)
(*                                                                         *)
(* Money and percentages are integers in hundredths (1.00 is 100), so      *)
(* Python's round(x, 2) becomes a rounded integer division.                *)
(***************************************************************************)
EXTENDS Integers, Sequences, FiniteSets, TLC

\* ------------------------------------------------------------------ bounds
\* RETRY retries after the first attempt (copy_trade.py: RETRY, env, default 3)
RETRY == 2
\* polling ticks the sell side is given (schwab_api.py: SELL_TIMEOUT, env)
SELL_TIMEOUT == 1
\* largest share count of the held and target maps a single pass starts from
MaxQty == 3

\* ------------------------------------------------------- program constants
PERIOD == 300
\* copy_trade.py 30, 82, 121
ApiErrorWait == 60
max_consecutive_errors == 5
LongWait == 300
MinEquity == 100

\* ------------------------------------------------------------ configuration
SymSeq == <<"A", "B">>
Symbols == {SymSeq[i] : i \in 1..Len(SymSeq)}
\* SCHWAB_ACCOUNT_NUMS after replace(" ", "").split(",")
AccountNums == <<"acct1", "acct2">>
Accounts == {AccountNums[i] : i \in 1..Len(AccountNums)}
\* values of the MODE environment variable
ModeValues == {"live", "LIVE", "debug", "paper"}
\* values of the TRADE_SOURCE environment variable
TradeSources == {"alpaca", "composer"}

VARIABLES
    modeEnv,              \* os.getenv("MODE")
    tradeSource,          \* os.getenv("TRADE_SOURCE")
    TRADE_WITH,           \* float(os.getenv("TRADE_WITH")), a percentage
    PADDING,              \* float(os.getenv("PADDING")), in cents
    SHARE_ROUND,          \* os.getenv("SHARE_ROUND").lower(): "near" or "down"
    tokenValid,           \* brokerage: whether the session answers OK
    source,               \* holdings provider: the positions it reports now
    held,                 \* brokerage: positions of each account
    orders,               \* brokerage: the orders of the running (or last) pass
    cancelCalls,          \* brokerage: ids of orders a cancel call was made for
    savedFile,            \* ./saved_pos.yaml
    backupFile,           \* ./saved_pos.yaml.backup
    pc,                   \* position of the process
    failed_accounts,      \* copy_trade.py: failed_accounts
    successful_accounts,  \* copy_trade.py: successful_accounts
    percentages,          \* copy_trade.py: percentages (the cycle's snapshot)
    acctIdx,              \* position of the account loop in AccountNums
    attempt,              \* execute_trades_for_account: attempt
    tickers,              \* buy_tickers_for_the_day: tickers (the target map)
    added_keys,           \* buy_tickers_for_the_day: added_keys
    removed_keys,         \* buy_tickers_for_the_day: removed_keys
    sell_orders,          \* buy_tickers_for_the_day: sell_orders (order ids)
    count,                \* buy_tickers_for_the_day: count
    ev,                   \* the last step taken: [kind, acct, err, n]
    consecutive_errors,   \* copy_trade.py: consecutive_errors
    lowBalAccts,          \* accounts that failed with the low-balance error
    unserved,             \* a change was detected, and since then no account
                          \* has succeeded and the source has not changed
    timedOut,             \* accounts that had a sell timeout in this cycle
    conv,                 \* what the brokerage reported to the conversion of
                          \* this attempt: [equity, total, mark]
    sellWait,             \* the sell-side wait of this pass so far: [polls,
                          \* ticks], status polls made and one-second sleeps
    http,                 \* composer_api._get: [pc, attempt, log, result], the
                          \* loop index, the responses received, the outcome
    waiter                \* run_at_355pm.wait_until_355pm_eastern: [pc, now,
                          \* nap], the Eastern time of day in seconds

vars == <<modeEnv, tradeSource, TRADE_WITH, PADDING, SHARE_ROUND, conv, sellWait,
          http, waiter,
          consecutive_errors, tokenValid, source, held,
          orders, cancelCalls, savedFile,
          backupFile, pc, failed_accounts, successful_accounts, percentages,
          acctIdx, attempt, tickers, added_keys, removed_keys, sell_orders,
          count, ev, lowBalAccts, unserved, timedOut>>

configVars == <<modeEnv, tradeSource, TRADE_WITH, PADDING, SHARE_ROUND>>
fileVars == <<savedFile, backupFile>>
passVars == <<tickers, added_keys, removed_keys, sell_orders, count, conv, sellWait>>
brokerVars == <<held, orders, cancelCalls>>
scriptVars == <<http, waiter>>

\* ------------------------------------------------------------------ helpers
EmptyMap == [k \in {} |-> 0]
Qty(m, k) == IF k \in DOMAIN m THEN m[k] ELSE 0
\* every map from a subset of keys to vals
Maps(keys, vals) == UNION {[d -> vals] : d \in SUBSET keys}
SeqRange(s) == {s[i] : i \in 1..Len(s)}
Event(kind, acct, err, n) == [kind |-> kind, acct |-> acct, err |-> err, n |-> n]
CurAcct == AccountNums[acctIdx]
\* no conversion has asked the brokerage anything in this attempt
NoConv == [equity |-> 0, total |-> 0, mark |-> 0]
\* the locals of buy_tickers_for_the_day outside a call of it
NoWait == [polls |-> 0, ticks |-> 0]

\* composer_api._get has not been called
NoRequest == [pc |-> "idle", attempt |-> 0, log |-> <<>>, result |-> "none"]

\* run_at_355pm.main has not called wait_until_355pm_eastern
NotWaiting == [pc |-> "idle", now |-> 0, nap |-> 0]
NoPass ==
    /\ conv' = NoConv
    /\ sellWait' = NoWait
    /\ tickers' = EmptyMap
    /\ added_keys' = EmptyMap
    /\ removed_keys' = EmptyMap
    /\ sell_orders' = <<>>
    /\ count' = 0

\* schwab_api.py 32-36: match os.getenv("MODE").lower()
Lower(s) == IF s = "LIVE" THEN "live" ELSE s
ModeMutant(env) ==
    IF Lower(env) = "live" THEN "LIVE"
    ELSE IF Lower(env) = "debug" THEN "DEBUG" ELSE "LIVE"
Mode(env) == IF Lower(env) = "live" THEN "LIVE" ELSE "DEBUG"

\* ------------------------------------------ execute_trades_for_account
\* copy_trade.py 53: "Account has to low of a balance" in error_msg
IsLowBalanceMutant(err) == FALSE
IsLowBalance(err) == err = "LowBalance"
\* copy_trade.py 57: "Invalid Token" in error_msg
IsInvalidTokenMutant(err) == FALSE
IsInvalidToken(err) == err = "InvalidToken"
\* copy_trade.py 62: attempt == RETRY
IsLastAttemptMutant(a) == a + 1 = RETRY
IsLastAttempt(a) == a = RETRY
\* copy_trade.py 67: PERIOD * (attempt + 1)
WaitTimeMutant(a) == PERIOD
WaitTime(a) == PERIOD * (a + 1)

\* copy_trade.py 141-148: execute_trades_for_account has returned `success`
ReturnedMutant(success, err) ==
    /\ pc' = IF success THEN "acct_loop" ELSE "save_gate"
    /\ acctIdx' = acctIdx + 1
    /\ attempt' = 0
    /\ successful_accounts' =
           IF success THEN successful_accounts \cup {CurAcct}
           ELSE successful_accounts
    /\ failed_accounts' =
           IF success THEN failed_accounts \ {CurAcct}
           ELSE failed_accounts \cup {CurAcct}
    /\ ev' = Event(IF success THEN "returned_true" ELSE "returned_false",
                   CurAcct, err, attempt + 1)
Returned(success, err) ==
    /\ pc' = "acct_loop"
    /\ acctIdx' = acctIdx + 1
    /\ attempt' = 0
    /\ successful_accounts' =
           IF success THEN successful_accounts \cup {CurAcct}
           ELSE successful_accounts
    /\ failed_accounts' =
           IF success THEN failed_accounts \ {CurAcct}
           ELSE failed_accounts \cup {CurAcct}
    /\ ev' = Event(IF success THEN "returned_true" ELSE "returned_false",
                   CurAcct, err, attempt + 1)

\* copy_trade.py 44-45: the attempt ended without an exception
AttemptSucceeded ==
    /\ Returned(TRUE, "none")
    /\ unserved' = FALSE
    /\ UNCHANGED <<lowBalAccts, timedOut>>

\* copy_trade.py 47-69: the attempt raised `err`
AttemptRaisedMutant(err) ==
    /\ lowBalAccts' = IF err = "LowBalance" THEN lowBalAccts \cup {CurAcct}
                      ELSE lowBalAccts
    /\ timedOut' = IF err = "SellTimeout" THEN timedOut \cup {CurAcct}
                   ELSE timedOut
    /\ UNCHANGED unserved
    /\ IF IsLowBalance(err) THEN Returned(FALSE, err)
       ELSE IF IsInvalidToken(err) THEN
            /\ pc' = "iter_error"
            /\ ev' = Event("reraised", CurAcct, err, attempt + 1)
            /\ UNCHANGED <<acctIdx, attempt, successful_accounts, failed_accounts>>
       ELSE IF err = "QuoteUnavailable" THEN
            /\ pc' = "btd"
            /\ ev' = Event("raised", CurAcct, err, attempt + 1)
            /\ UNCHANGED <<acctIdx, attempt, successful_accounts, failed_accounts>>
       ELSE IF IsLastAttempt(attempt) THEN Returned(FALSE, err)
       ELSE /\ pc' = "backoff"
            /\ ev' = Event("raised", CurAcct, err, attempt + 1)
            /\ UNCHANGED <<acctIdx, attempt, successful_accounts, failed_accounts>>
AttemptRaised(err) ==
    /\ lowBalAccts' = IF err = "LowBalance" THEN lowBalAccts \cup {CurAcct}
                      ELSE lowBalAccts
    /\ timedOut' = IF err = "SellTimeout" THEN timedOut \cup {CurAcct}
                   ELSE timedOut
    /\ UNCHANGED unserved
    /\ IF IsLowBalance(err) THEN Returned(FALSE, err)
       ELSE IF IsInvalidToken(err) THEN
            /\ pc' = "iter_error"
            /\ ev' = Event("reraised", CurAcct, err, attempt + 1)
            /\ UNCHANGED <<acctIdx, attempt, successful_accounts, failed_accounts>>
       ELSE IF IsLastAttempt(attempt) THEN Returned(FALSE, err)
       ELSE /\ pc' = "backoff"
            /\ ev' = Event("raised", CurAcct, err, attempt + 1)
            /\ UNCHANGED <<acctIdx, attempt, successful_accounts, failed_accounts>>

\* ------------------------------------------------ the position diff engine
\* schwab_api.py 393
AddedKeysMutant(old, new) == [k \in DOMAIN new |-> new[k]]
AddedKeys(old, new) ==
    [k \in {x \in DOMAIN new : x \notin DOMAIN old} |-> new[k]]
\* schwab_api.py 394
RemovedKeys(old, new) ==
    [k \in {x \in DOMAIN old : x \notin DOMAIN new} |-> old[k]]
\* schwab_api.py 395
ChangedKeys(old, new) ==
    [k \in {x \in DOMAIN old : x \in DOMAIN new /\ old[x] # new[x]} |->
        [old |-> old[k], new |-> new[k]]]
\* schwab_api.py 406-415: changed entries with new > old go to added_keys
FoldAddedMutant(added, changed) ==
    [k \in DOMAIN added \cup DOMAIN changed |->
        IF k \in DOMAIN changed
        THEN IF k \in DOMAIN added THEN added[k] + 1 ELSE 1
        ELSE added[k]]
FoldAdded(added, changed) ==
    LET up == {k \in DOMAIN changed : changed[k].new > changed[k].old}
    IN  [k \in DOMAIN added \cup up |->
            IF k \in up
            THEN IF k \in DOMAIN added THEN added[k] + 1 ELSE 1
            ELSE added[k]]
\* schwab_api.py 417-422: changed entries with new < old go to removed_keys
FoldRemoved(removed, changed) ==
    LET down == {k \in DOMAIN changed : changed[k].new < changed[k].old}
    IN  [k \in DOMAIN removed \cup down |->
            IF k \in down
            THEN IF k \in DOMAIN removed THEN removed[k] + 1 ELSE 1
            ELSE removed[k]]

\* ------------------------------------------------------------- the orders
Order(acct, side, sym, qty) ==
    [acct |-> acct, side |-> side, sym |-> sym, qty |-> qty, status |-> "WORKING"]

\* schwab_api.py 348-354 and 370-376: one market order per ticker whose
\* quantity is not 0, in the order of the dict
RECURSIVE PlaceOrdersMutant(_, _, _, _)
PlaceOrdersMutant(acct, side, m, i) ==
    IF i > Len(SymSeq) THEN <<>>
    ELSE LET s == SymSeq[i]
         IN  (IF s \in DOMAIN m
              THEN <<Order(acct, side, s, m[s])>> ELSE <<>>)
             \o PlaceOrdersMutant(acct, side, m, i + 1)
RECURSIVE PlaceOrders(_, _, _, _)
PlaceOrders(acct, side, m, i) ==
    IF i > Len(SymSeq) THEN <<>>
    ELSE LET s == SymSeq[i]
         IN  (IF s \in DOMAIN m /\ m[s] # 0
              THEN <<Order(acct, side, s, m[s])>> ELSE <<>>)
             \o PlaceOrders(acct, side, m, i + 1)

\* schwab_api.py 326-334: every order of the list reports FILLED
check_orders_for_completion_mutant(ids) == TRUE
check_orders_for_completion(ids) == \A i \in SeqRange(ids) : orders[i].status = "FILLED"

\* the brokerage fills a working order for its full quantity.  The process
\* reads order status in PollSell and positions in buy_tickers_for_the_day only, so a
\* fill is taken where one of the two comes next.
BrokerFill ==
    \E i \in 1..Len(orders) :
        /\ pc \in {"await_sell", "acct_loop", "backoff"}
        /\ orders[i].status = "WORKING"
        /\ orders' = [orders EXCEPT ![i].status = "FILLED"]
        /\ LET o == orders[i]
               h == held[o.acct]
               q == IF o.side = "SELL" THEN Qty(h, o.sym) - o.qty
                    ELSE Qty(h, o.sym) + o.qty
           IN  held' = [held EXCEPT ![o.acct] =
                   [k \in (DOMAIN h \cup {o.sym}) \ (IF q = 0 THEN {o.sym} ELSE {}) |->
                       IF k = o.sym THEN q ELSE h[k]]]
        /\ UNCHANGED <<configVars, scriptVars, consecutive_errors, tokenValid, source, cancelCalls, fileVars, pc,
                       failed_accounts, successful_accounts, percentages, acctIdx,
                       attempt, passVars, ev, lowBalAccts, unserved, timedOut>>

\* --------------------------------------------- buy_tickers_for_the_day
\* schwab_api.py 388-433: read the holdings, diff, fold, mode gate.  Orders a
\* previous pass left working are no longer followed.
buy_tickers_for_the_day ==
    /\ pc = "btd"
    /\ \/ \* 388: get_current_holdings raises (the account lookup failed)
          /\ AttemptRaised("Transient")
          /\ UNCHANGED <<passVars, orders, cancelCalls>>
       \/ LET old == held[CurAcct]
              new == tickers
              changed == ChangedKeys(old, new)
          IN  /\ added_keys' = FoldAdded(AddedKeys(old, new), changed)
              /\ removed_keys' = FoldRemoved(RemovedKeys(old, new), changed)
              /\ orders' = <<>>
              /\ cancelCalls' = {}
              /\ sell_orders' = <<>>
              /\ count' = SELL_TIMEOUT
              /\ sellWait' = NoWait
              /\ UNCHANGED <<tickers, conv>>
              /\ IF Mode(modeEnv) = "DEBUG"
                 THEN AttemptSucceeded
                 ELSE /\ pc' = "selling"
                      /\ ev' = Event("diffed", CurAcct, "none", attempt + 1)
                      /\ UNCHANGED <<acctIdx, attempt, successful_accounts,
                                     failed_accounts, lowBalAccts, unserved, timedOut>>
    /\ UNCHANGED <<configVars, scriptVars, consecutive_errors, tokenValid, source, held, fileVars, percentages>>

\* schwab_api.py 434-438: sell_tickers
sell_tickers ==
    /\ pc = "selling"
    /\ orders' = PlaceOrders(CurAcct, "SELL", removed_keys, 1)
    /\ sell_orders' = [i \in 1..Len(orders') |-> i]
    /\ pc' = "await_sell"
    /\ ev' = Event("sold", CurAcct, "none", attempt + 1)
    /\ UNCHANGED <<configVars, scriptVars, consecutive_errors, tokenValid, source, held, cancelCalls, fileVars,
                   failed_accounts, successful_accounts, percentages, acctIdx,
                   attempt, tickers, added_keys, removed_keys, count, conv, sellWait,
                   lowBalAccts, unserved, timedOut>>

\* schwab_api.py 440: count == 0
CounterExhaustedMutant(c) == c < 0
CounterExhaustedEarly(c) == c <= 1
CounterExhausted(c) == c = 0

\* schwab_api.py 439-448: one evaluation of the sell-side polling loop
PollSell ==
    /\ pc = "await_sell"
    /\ IF check_orders_for_completion(sell_orders)
       THEN /\ pc' = "buying"
            /\ sellWait' = [sellWait EXCEPT !.polls = @ + 1]
            /\ ev' = Event("sells_filled", CurAcct, "none", attempt + 1)
            /\ UNCHANGED <<orders, cancelCalls, count, acctIdx, attempt,
                           successful_accounts, failed_accounts, lowBalAccts, unserved,
                           timedOut>>
       ELSE IF CounterExhausted(count)
       THEN \* 443-445: cancel every sell order, then raise
            /\ cancelCalls' = cancelCalls \cup SeqRange(sell_orders)
            /\ orders' = [i \in 1..Len(orders) |->
                            IF i \in SeqRange(sell_orders) /\ orders[i].status = "WORKING"
                            THEN [orders[i] EXCEPT !.status = "CANCELED"]
                            ELSE orders[i]]
            /\ AttemptRaised("SellTimeout")
            /\ sellWait' = [sellWait EXCEPT !.polls = @ + 1]
            /\ UNCHANGED count
       ELSE \* 446-448: count -= 1, time.sleep(1)
            /\ count' = count - 1
            /\ sellWait' = [polls |-> sellWait.polls + 1, ticks |-> sellWait.ticks + 1]
            /\ ev' = Event("tick", CurAcct, "none", attempt + 1)
            /\ UNCHANGED <<pc, orders, cancelCalls, acctIdx, attempt,
                           successful_accounts, failed_accounts, lowBalAccts, unserved,
                           timedOut>>
    /\ UNCHANGED <<configVars, scriptVars, consecutive_errors, tokenValid, source, held, fileVars, percentages,
                   tickers, added_keys, removed_keys, sell_orders, conv>>

\* schwab_api.py 450-455: buy_tickers returns None, so the polling loop of
\* lines 451-455 is never entered and the pass is over
buy_tickers ==
    /\ pc = "buying"
    /\ orders' = orders \o PlaceOrders(CurAcct, "BUY", added_keys, 1)
    /\ AttemptSucceeded
    /\ UNCHANGED <<configVars, scriptVars, consecutive_errors, tokenValid, source, held, cancelCalls, fileVars,
                   percentages, passVars>>

\* ------------------------------------------------ a single pass, any maps
InitPass ==
    /\ modeEnv \in ModeValues
    /\ tradeSource = "alpaca"
    /\ TRADE_WITH = 100
    /\ PADDING = 0
    /\ SHARE_ROUND = "down"
    /\ conv = NoConv
    /\ sellWait = NoWait
    /\ http = NoRequest
    /\ waiter = NotWaiting
    /\ consecutive_errors = 0
    /\ unserved = FALSE
    /\ tokenValid = TRUE
    /\ source = EmptyMap
    /\ held \in [Accounts -> Maps(Symbols, 0..MaxQty)]
    /\ \A a \in Accounts \ {AccountNums[1]} : held[a] = EmptyMap
    /\ orders = <<>>
    /\ cancelCalls = {}
    /\ savedFile = [kind |-> "none"]
    /\ backupFile = [kind |-> "none"]
    /\ pc = "btd"
    /\ failed_accounts = {}
    /\ successful_accounts = {}
    /\ percentages = [percentages |-> EmptyMap, assets |-> EmptyMap, portfolio_total |-> 0]
    /\ acctIdx = 1
    /\ attempt \in 0..RETRY
    /\ tickers \in Maps(Symbols, 0..MaxQty)
    /\ added_keys = EmptyMap
    /\ removed_keys = EmptyMap
    /\ sell_orders = <<>>
    /\ count = 0
    /\ ev = Event("start", "none", "none", 0)
    /\ lowBalAccts = {}
    /\ timedOut = {}

NextPass ==
    \/ buy_tickers_for_the_day
    \/ sell_tickers
    \/ PollSell
    \/ buy_tickers
    \/ BrokerFill

SpecPass == InitPass /\ [][NextPass]_vars

\* ------------------------------------------------------ holdings source
\* Python's round(): to the nearest integer, a tie to the even one (d > 0)
RoundDiv(n, d) ==
    LET q == n \div d
        r == n % d
    IN  IF 2 * r < d THEN q
        ELSE IF 2 * r > d THEN q + 1
        ELSE IF q % 2 = 0 THEN q ELSE q + 1

RECURSIVE SumOver(_, _)
SumOver(m, keys) ==
    IF keys = {} THEN 0
    ELSE LET k == CHOOSE x \in keys : TRUE
         IN  m[k] + SumOver(m, keys \ {k})

\* what the holdings provider can report: qty (in hundredths of a share, the
\* provider has fractional shares) and current_price (in cents) per symbol
Holding(q) == [qty |-> q, current_price |-> 100]
Sources ==
    { EmptyMap,
      [s \in {"A"} |-> Holding(100)],
      [s \in {"A"} |-> Holding(200)] }

\* alpaca_api.py 29-35; market_value is in hundredths of a cent
Assets(h) ==
    [s \in DOMAIN h |-> [qty |-> h[s].qty, current_price |-> h[s].current_price,
                         market_value |-> h[s].current_price * h[s].qty]]
\* alpaca_api.py 37: round(sum of the market values, 2), in cents
PortfolioTotal(h) ==
    RoundDiv(SumOver([s \in DOMAIN h |-> Assets(h)[s].market_value], DOMAIN h), 100)
\* alpaca_api.py 39-44: round((market_value / portfolio_total) * 100, 2)
Pcts(h) ==
    [s \in DOMAIN h |-> RoundDiv(Assets(h)[s].market_value * 100, PortfolioTotal(h))]
Checksum(h) == SumOver(Pcts(h), DOMAIN h)
\* alpaca_api.py 47: per_checksum < 99
ChecksumInvalidMutant(h) == Checksum(h) < 9900 \/ Checksum(h) > 10000
ChecksumInvalid(h) == Checksum(h) < 9900
\* alpaca_api.py 50-54
get_alpaca_percentages(h) ==
    [percentages |-> [k \in DOMAIN h \cup {"checksum"} |->
                         IF k = "checksum" THEN Checksum(h) ELSE Pcts(h)[k]],
     assets |-> Assets(h),
     portfolio_total |-> PortfolioTotal(h)]

\* composer_api.py 82-145: the allocation, value and amount the provider
\* reports for each holding; there is no checksum entry
ComposerKept(h) == {s \in DOMAIN h : h[s].qty > 0 /\ h[s].current_price > 0}
ComposerTotal(h) ==
    SumOver([s \in ComposerKept(h) |-> h[s].current_price * h[s].qty], ComposerKept(h))
get_composer_percentages(h) ==
    [percentages |-> [s \in ComposerKept(h) |->
                         RoundDiv(h[s].current_price * h[s].qty * 10000, ComposerTotal(h))],
     assets |-> [s \in ComposerKept(h) |->
                    [current_price |-> h[s].current_price,
                     market_value |-> h[s].current_price * h[s].qty,
                     qty |-> h[s].qty,
                     rounded_qty |-> h[s].qty]],
     portfolio_total |-> ComposerTotal(h)]

\* holdings_source.py 22-38: the provider TRADE_SOURCE selects
Fetch(h) ==
    IF tradeSource = "alpaca" THEN get_alpaca_percentages(h)
    ELSE get_composer_percentages(h)
\* the error the normalization itself raises for holdings h, "none" if it
\* returns: alpaca_api.py 41 divides by portfolio_total, 47-48 raises
\* Exception("Invalid Checksum"); composer_api.py 82-145 raises neither
FetchError(h) ==
    IF tradeSource # "alpaca" THEN "none"
    ELSE IF DOMAIN h # {} /\ PortfolioTotal(h) = 0 THEN "ZeroDivisionError"
    ELSE IF ChecksumInvalid(h) THEN "InvalidChecksum"
    ELSE "none"
\* the fetch always raises for these holdings
FetchRaises(h) == FetchError(h) # "none"
\* the errors a fetch can raise: ComposerAPIError only from the composer client
FetchErrors == IF tradeSource = "composer" THEN {"ComposerAPIError", "Exception"}
               ELSE {"Exception"}

\* yaml.dump and yaml.safe_load of a snapshot document
YamlDump(d) == [kind |-> "yaml", doc |-> d]
SafeLoad(f) == f.doc
\* no file, a file that loads as an empty or non-dict document, and a file
\* that does not parse
NoFile == [kind |-> "none"]
EmptyFile == [kind |-> "empty"]
UnparsableFile == [kind |-> "unparsable"]
\* the value of `percentages` before its first assignment
Unassigned == [percentages |-> EmptyMap, assets |-> EmptyMap, portfolio_total |-> 0]

\* holdings_source.py 66-84: new asset, quantity change, removed asset
DiffersMutant(cur, saved) == cur # saved
Differs(cur, saved) ==
    \/ \E a \in DOMAIN cur.assets : a \notin DOMAIN saved.assets
    \/ \E a \in DOMAIN cur.assets :
          a \in DOMAIN saved.assets /\ cur.assets[a].qty # saved.assets[a].qty
    \/ \E a \in DOMAIN saved.assets : a \notin DOMAIN cur.assets

\* holdings_source.py 88-91: what check_for_change returns when it caught an
\* exception
OnCheckErrorMutant == FALSE
OnCheckError == TRUE
\* copy_trade.py 102-106: the result of check_for_change as the main loop
\* takes it
CheckResult(changed) == IF changed THEN "change" ELSE "no_change"
AfterCheck(changed) == IF changed THEN "get_pct" ELSE "sleep"

\* holdings_source.py 46-91: check_for_change, then copy_trade.py 102-106
check_for_change ==
    /\ pc = "check_change"
    /\ \/ \* 49, 88-91: get_percentages raised; a change is assumed
          /\ pc' = AfterCheck(OnCheckError)
          /\ ev' = Event(CheckResult(OnCheckError), "none", "provider", 0)
          /\ UNCHANGED savedFile
       \/ /\ ~FetchRaises(source)
          /\ LET cur == Fetch(source)
             IN  IF savedFile = NoFile
                 THEN /\ savedFile' = YamlDump(cur)
                      /\ pc' = "get_pct"
                      /\ ev' = Event("change", "none", "no_file", 0)
                 ELSE IF savedFile = UnparsableFile
                 THEN \* 58-59, 88-91: yaml.safe_load raised
                      /\ pc' = AfterCheck(OnCheckError)
                      /\ ev' = Event(CheckResult(OnCheckError), "none", "unparsable", 0)
                      /\ UNCHANGED savedFile
                 ELSE IF savedFile = EmptyFile
                 THEN /\ savedFile' = YamlDump(cur)
                      /\ pc' = "get_pct"
                      /\ ev' = Event("change", "none", "empty_file", 0)
                 ELSE IF Differs(cur, SafeLoad(savedFile))
                 THEN /\ pc' = "get_pct"
                      /\ ev' = Event("change", "none", "none", 0)
                      /\ UNCHANGED savedFile
                 ELSE /\ pc' = "sleep"
                      /\ ev' = Event("no_change", "none", "none", 0)
                      /\ UNCHANGED savedFile
    /\ unserved' = (ev'.kind = "change")
    /\ UNCHANGED <<configVars, scriptVars, consecutive_errors, tokenValid, source, brokerVars,
                   backupFile, failed_accounts, successful_accounts, percentages,
                   acctIdx, attempt, passVars, lowBalAccts, timedOut>>

\* holdings_source.py 93-109: save_changes
save_changes(cur) ==
    /\ backupFile' = IF savedFile # NoFile THEN savedFile ELSE backupFile
    /\ savedFile' = YamlDump(cur)

\* ----------------------------------------------------------- the main loop
\* the iteration is over: its locals are dropped, and the orders it left at the
\* brokerage are no longer followed
IterationOver ==
    /\ percentages' = Unassigned
    /\ successful_accounts' = {}
    /\ acctIdx' = 1
    /\ attempt' = 0
    /\ timedOut' = {}
    /\ orders' = <<>>
    /\ cancelCalls' = {}
    /\ NoPass

\* copy_trade.py 87-99: the token check
LoopTop ==
    /\ pc = "loop_top"
    /\ \/ \* schwab_api.py 103: the request itself raised
          /\ pc' = "iter_error"
          /\ ev' = Event("loop_raised", "none", "TokenCheck", 0)
       \/ IF tokenValid
          THEN /\ pc' = "check_change"
               /\ ev' = Event("token_ok", "none", "none", 0)
          ELSE /\ pc' = "token_wait"
               /\ ev' = Event("token_invalid", "none", "none", 0)
    /\ UNCHANGED <<configVars, scriptVars, consecutive_errors, tokenValid, source, brokerVars, fileVars,
                   failed_accounts, successful_accounts, percentages, acctIdx,
                   attempt, passVars, lowBalAccts, unserved, timedOut>>

\* copy_trade.py 97: the condition under which the wait loop is left
TokenWaitOverMutant(valid) == TRUE
TokenWaitOver(valid) == FALSE

\* copy_trade.py 97-99: while True: time.sleep(60)
TokenWait ==
    /\ pc = "token_wait"
    /\ pc' = IF TokenWaitOver(tokenValid) THEN "loop_top" ELSE "token_wait"
    /\ ev' = Event("token_sleep", "none", "none", 0)
    /\ UNCHANGED <<configVars, scriptVars, consecutive_errors, tokenValid, source, brokerVars, fileVars,
                   failed_accounts, successful_accounts, percentages, acctIdx,
                   attempt, passVars, lowBalAccts, unserved, timedOut>>

\* copy_trade.py 25-32: handle_api_error sleeps after a ComposerAPIError only
handle_api_error_mutant(isComposerError) == 0
handle_api_error(isComposerError) == IF isComposerError THEN ApiErrorWait ELSE 0

\* copy_trade.py 106-131: the settling wait, get_percentages, the account list
get_percentages ==
    /\ pc = "get_pct"
    /\ \/ \* 116-123: ComposerAPIError; handle_api_error sleeps, then continue
          /\ "ComposerAPIError" \in FetchErrors
          /\ pc' = "loop_top"
          /\ IF consecutive_errors + 1 >= max_consecutive_errors
             THEN /\ consecutive_errors' = 0
                  /\ ev' = Event("get_pct_failed", "none", "ComposerAPIError",
                                 handle_api_error(TRUE) + LongWait)
             ELSE /\ consecutive_errors' = consecutive_errors + 1
                  /\ ev' = Event("get_pct_failed", "none", "ComposerAPIError",
                                 handle_api_error(TRUE))
          /\ UNCHANGED <<percentages, acctIdx, successful_accounts, timedOut>>
       \/ \* 124-127: any other exception; sleep(PERIOD), then continue
          /\ pc' = "loop_top"
          /\ \E err \in {"Exception"} \cup ({FetchError(source)} \ {"none"}) :
                ev' = Event("get_pct_failed", "none", err, PERIOD)
          /\ UNCHANGED <<consecutive_errors, percentages, acctIdx,
                         successful_accounts, timedOut>>
       \/ /\ ~FetchRaises(source)
          /\ percentages' = Fetch(source)
          /\ consecutive_errors' = 0
          /\ acctIdx' = 1
          /\ successful_accounts' = {}
          /\ timedOut' = {}
          /\ pc' = "acct_loop"
          /\ ev' = Event("got_pct", "none", "none", 0)
    /\ UNCHANGED <<configVars, scriptVars, tokenValid, source, brokerVars, fileVars,
                   failed_accounts, attempt, passVars, lowBalAccts, unserved>>

\* copy_trade.py 134: not account_num.strip()
IsBlank(a) == a = ""
\* copy_trade.py 137: account_num in failed_accounts
IsSkippedMutant(a) == FALSE
IsSkipped(a) == a \in failed_accounts

\* copy_trade.py 133-141: the head of the account loop
AccountLoop ==
    /\ pc = "acct_loop"
    /\ IF acctIdx > Len(AccountNums)
       THEN /\ pc' = "save_gate"
            /\ ev' = Event("accounts_done", "none", "none", 0)
            /\ UNCHANGED <<acctIdx, attempt>>
       ELSE IF IsBlank(CurAcct) \/ IsSkipped(CurAcct)
       THEN /\ acctIdx' = acctIdx + 1
            /\ ev' = Event("skipped", CurAcct, "none", 0)
            /\ UNCHANGED <<pc, attempt>>
       ELSE /\ pc' = "attempt"
            /\ attempt' = 0
            /\ ev' = Event("execute", CurAcct, "none", 0)
            /\ UNCHANGED acctIdx
    /\ NoPass
    /\ UNCHANGED <<configVars, scriptVars, consecutive_errors, tokenValid, source, brokerVars, fileVars,
                   failed_accounts, successful_accounts, percentages,
                   lowBalAccts, unserved, timedOut>>

\* ------------------------------------------------------------ conversion
\* what the brokerage can report as liquidation value, and as mark price
Equities == {50, 200}
QuotePrices == {100}

\* schwab_api.py 261: account_total < 1.0
BalanceTooLowMutant(total) == total <= MinEquity
BalanceTooLow(total) == total < MinEquity
\* schwab_api.py 266: round(account_total * (TRADE_WITH/100) - PADDING, 2)
get_account_trade_value(total) == RoundDiv(total * TRADE_WITH, 100) - PADDING
\* schwab_api.py 283-286: percentages[stock] = round(total * percentages[stock]/100, 2)
DollarAmounts(total, pcts) ==
    [k \in DOMAIN pcts |-> RoundDiv(total * pcts[k], 10000)]
\* schwab_api.py 303-306: round(x) or math.floor(x) of dollars / mark
SharesMutant(dollars, mark) == RoundDiv(dollars, mark)
Shares(dollars, mark) ==
    IF SHARE_ROUND = "near" THEN RoundDiv(dollars, mark) ELSE dollars \div mark
\* schwab_api.py 294-306
BuyAmounts(dollars, mark) ==
    [k \in DOMAIN dollars \ {"checksum"} |-> Shares(dollars[k], mark)]

\* copy_trade.py 36-42 with schwab_api.py 246-313: one attempt, up to the
\* call of buy_tickers_for_the_day, when the brokerage reports one of
\* `equities` as the liquidation value and one of `prices` as the mark
Attempt(equities, prices) ==
    /\ pc = "attempt"
    /\ \/ \* 255: the account lookup raised
          /\ AttemptRaised("Transient")
          /\ UNCHANGED <<percentages, tickers, conv>>
       \/ \* 255: the lookup raised an invalid-token error
          /\ ~tokenValid
          /\ AttemptRaised("InvalidToken")
          /\ UNCHANGED <<percentages, tickers, conv>>
       \/ \E equity \in equities :
             IF BalanceTooLow(equity)
             THEN /\ AttemptRaised("LowBalance")
                  /\ conv' = [equity |-> equity, total |-> 0, mark |-> 0]
                  /\ UNCHANGED <<percentages, tickers>>
             ELSE LET total == get_account_trade_value(equity)
                      dollars == DollarAmounts(total, percentages.percentages)
                  IN  /\ percentages' = [percentages EXCEPT !.percentages = dollars]
                      /\ IF "checksum" \notin DOMAIN dollars
                         THEN \* 291: set.remove raises KeyError
                              /\ AttemptRaised("KeyError")
                              /\ conv' = [equity |-> equity, total |-> total, mark |-> 0]
                              /\ UNCHANGED tickers
                         ELSE \/ \* 292, 301: get_quotes returned False
                                 /\ DOMAIN dollars # {"checksum"}
                                 /\ AttemptRaised("QuoteUnavailable")
                                 /\ conv' = [equity |-> equity, total |-> total, mark |-> 0]
                                 /\ UNCHANGED tickers
                              \/ \E mark \in prices :
                                    /\ tickers' = BuyAmounts(dollars, mark)
                                    /\ conv' = [equity |-> equity, total |-> total,
                                                mark |-> mark]
                                    /\ pc' = "btd"
                                    /\ ev' = Event("converted", CurAcct, "none", attempt + 1)
                                    /\ UNCHANGED <<acctIdx, attempt, successful_accounts,
                                                   failed_accounts, lowBalAccts, unserved, timedOut>>
    /\ UNCHANGED <<configVars, scriptVars, consecutive_errors, tokenValid, source, brokerVars, fileVars,
                   added_keys, removed_keys, sell_orders, count, sellWait>>

breakdown_account_by_quotes == Attempt(Equities, QuotePrices)

\* copy_trade.py 66-69: the wait before the next attempt
Backoff ==
    /\ pc = "backoff"
    /\ pc' = "attempt"
    /\ attempt' = attempt + 1
    /\ ev' = Event("waited", CurAcct, "none", WaitTime(attempt))
    /\ NoPass
    /\ UNCHANGED <<configVars, scriptVars, consecutive_errors, tokenValid, source, brokerVars, fileVars,
                   failed_accounts, successful_accounts, percentages, acctIdx,
                   lowBalAccts, unserved, timedOut>>

\* copy_trade.py 151: if successful_accounts
SaveGateOpenMutant(succ) == FALSE
SaveGateOpen(succ) == succ # {}

\* copy_trade.py 150-158: the save gate
SaveGate ==
    /\ pc = "save_gate"
    /\ IF SaveGateOpen(successful_accounts)
       THEN \/ /\ save_changes(percentages)
               /\ ev' = Event("saved", "none", "none", 0)
            \/ \* 155-156: save_changes raised before writing anything
               /\ ev' = Event("save_failed", "none", "Exception", 0)
               /\ UNCHANGED fileVars
       ELSE /\ ev' = Event("not_saved", "none", "none", 0)
            /\ UNCHANGED fileVars
    /\ pc' = "sleep"
    /\ UNCHANGED <<configVars, scriptVars, consecutive_errors, tokenValid, source, brokerVars, failed_accounts,
                   successful_accounts, percentages, acctIdx, attempt, passVars,
                   lowBalAccts, unserved, timedOut>>

\* copy_trade.py 160-161: time.sleep(PERIOD)
Sleep ==
    /\ pc = "sleep"
    /\ pc' = "loop_top"
    /\ ev' = Event("slept", "none", "none", PERIOD)
    /\ IterationOver
    /\ UNCHANGED <<configVars, scriptVars, consecutive_errors, tokenValid, source, held, fileVars,
                   failed_accounts, lowBalAccts, unserved>>

\* copy_trade.py 167-170: the handler of the main loop
IterError ==
    /\ pc = "iter_error"
    /\ pc' = "loop_top"
    /\ ev' = Event("recovered", "none", "none", PERIOD)
    /\ IterationOver
    /\ UNCHANGED <<configVars, scriptVars, consecutive_errors, tokenValid, source, held, fileVars,
                   failed_accounts, lowBalAccts, unserved>>

\* ------------------------------------------------------- the environment
\* the holdings provider reports other positions
SourceChanges ==
    /\ pc \in {"sleep", "get_pct"}
    /\ source' \in Sources \ {source}
    /\ unserved' = FALSE
    /\ UNCHANGED <<configVars, scriptVars, consecutive_errors, tokenValid, brokerVars, fileVars,
                   pc, failed_accounts, successful_accounts, percentages, acctIdx,
                   attempt, passVars, ev, lowBalAccts, timedOut>>

\* the brokerage session expires or is renewed
TokenChanges ==
    /\ pc \in {"sleep", "iter_error", "get_pct", "acct_loop", "backoff", "token_wait"}
    /\ tokenValid' = ~tokenValid
    /\ UNCHANGED <<configVars, scriptVars, consecutive_errors, source, brokerVars, fileVars, pc,
                   failed_accounts, successful_accounts, percentages, acctIdx,
                   attempt, passVars, ev, lowBalAccts, unserved, timedOut>>

\* positions an account can hold when the process starts
HeldAtStart == {EmptyMap, [s \in {"B"} |-> 1]}

Init ==
    /\ modeEnv \in {"live", "debug"}
    /\ tradeSource \in TradeSources
    /\ TRADE_WITH = 100
    /\ PADDING = 0
    /\ SHARE_ROUND = "down"
    /\ conv = NoConv
    /\ sellWait = NoWait
    /\ http = NoRequest
    /\ waiter = NotWaiting
    /\ consecutive_errors = 0
    /\ unserved = FALSE
    /\ tokenValid = TRUE
    /\ source \in Sources
    /\ held \in [Accounts -> HeldAtStart]
    /\ \A a \in Accounts \ {AccountNums[1]} : held[a] = EmptyMap
    /\ orders = <<>>
    /\ cancelCalls = {}
    /\ savedFile \in {NoFile, EmptyFile, UnparsableFile}
    /\ backupFile = NoFile
    /\ pc = "loop_top"
    /\ failed_accounts = {}
    /\ successful_accounts = {}
    /\ percentages = Unassigned
    /\ acctIdx = 1
    /\ attempt = 0
    /\ tickers = EmptyMap
    /\ added_keys = EmptyMap
    /\ removed_keys = EmptyMap
    /\ sell_orders = <<>>
    /\ count = 0
    /\ ev = Event("start", "none", "none", 0)
    /\ lowBalAccts = {}
    /\ timedOut = {}

Next ==
    \/ LoopTop
    \/ TokenWait
    \/ check_for_change
    \/ get_percentages
    \/ AccountLoop
    \/ breakdown_account_by_quotes
    \/ buy_tickers_for_the_day
    \/ sell_tickers
    \/ PollSell
    \/ buy_tickers
    \/ Backoff
    \/ SaveGate
    \/ Sleep
    \/ IterError
    \/ BrokerFill
    \/ SourceChanges
    \/ TokenChanges

Spec == Init /\ [][Next]_vars

\* the steps of the process itself; it is a single thread that is never
\* descheduled for good, so a step it can keep taking is taken
Program ==
    \/ LoopTop
    \/ TokenWait
    \/ check_for_change
    \/ get_percentages
    \/ AccountLoop
    \/ breakdown_account_by_quotes
    \/ buy_tickers_for_the_day
    \/ sell_tickers
    \/ PollSell
    \/ buy_tickers
    \/ Backoff
    \/ SaveGate
    \/ Sleep
    \/ IterError

SpecFair == Init /\ [][Next]_vars /\ WF_vars(Program)

\* ------------------------------------------- change detection, any inputs
\* holdings the provider can report, with one or two symbols, quantities and
\* prices
DetectHoldings ==
    {[qty |-> q, current_price |-> p] : q \in {100, 200}, p \in {100, 300}}
DetectSources == Maps(Symbols, DetectHoldings)

InitDetect ==
    /\ modeEnv = "live"
    /\ tradeSource \in TradeSources
    /\ TRADE_WITH = 100
    /\ PADDING = 0
    /\ SHARE_ROUND = "down"
    /\ conv = NoConv
    /\ sellWait = NoWait
    /\ http = NoRequest
    /\ waiter = NotWaiting
    /\ consecutive_errors = 0
    /\ unserved = FALSE
    /\ tokenValid = TRUE
    /\ source \in DetectSources
    /\ held = [a \in Accounts |-> EmptyMap]
    /\ orders = <<>>
    /\ cancelCalls = {}
    /\ savedFile \in {NoFile, EmptyFile, UnparsableFile}
                     \cup {YamlDump(Fetch(h)) : h \in DetectSources}
    /\ backupFile = NoFile
    /\ pc = "check_change"
    /\ failed_accounts = {}
    /\ successful_accounts = {}
    /\ percentages = Unassigned
    /\ acctIdx = 1
    /\ attempt = 0
    /\ tickers = EmptyMap
    /\ added_keys = EmptyMap
    /\ removed_keys = EmptyMap
    /\ sell_orders = <<>>
    /\ count = 0
    /\ ev = Event("start", "none", "none", 0)
    /\ lowBalAccts = {}
    /\ timedOut = {}

NextDetect == check_for_change

SpecDetect == InitDetect /\ [][NextDetect]_vars

\* ---------------------------------------------- normalization, any inputs
\* holdings the provider can report, down to a hundredth of a share of a stock
\* that costs less than a dollar or a little more
NormalizeHoldings ==
    {[qty |-> q, current_price |-> p] : q \in {1, 100}, p \in {40, 98, 99, 140}}
NormalizeSources == Maps(Symbols, NormalizeHoldings)

InitNormalize ==
    /\ modeEnv = "live"
    /\ tradeSource \in TradeSources
    /\ TRADE_WITH = 100
    /\ PADDING = 0
    /\ SHARE_ROUND = "down"
    /\ conv = NoConv
    /\ sellWait = NoWait
    /\ http = NoRequest
    /\ waiter = NotWaiting
    /\ consecutive_errors = 0
    /\ unserved = TRUE
    /\ tokenValid = TRUE
    /\ source \in NormalizeSources
    /\ held = [a \in Accounts |-> EmptyMap]
    /\ orders = <<>>
    /\ cancelCalls = {}
    /\ savedFile = NoFile
    /\ backupFile = NoFile
    /\ pc = "get_pct"
    /\ failed_accounts = {}
    /\ successful_accounts = {}
    /\ percentages = Unassigned
    /\ acctIdx = 1
    /\ attempt = 0
    /\ tickers = EmptyMap
    /\ added_keys = EmptyMap
    /\ removed_keys = EmptyMap
    /\ sell_orders = <<>>
    /\ count = 0
    /\ ev = Event("change", "none", "provider", 0)
    /\ lowBalAccts = {}
    /\ timedOut = {}

NextNormalize == get_percentages

SpecNormalize == InitNormalize /\ [][NextNormalize]_vars

\* ------------------------------------------------ conversion, any inputs
\* snapshots the normalizer can return: all in one symbol, 60 to 40, one
\* third to two thirds
ConvertSources ==
    { [s \in {"A"} |-> Holding(100)],
      [s \in Symbols |-> IF s = "A" THEN Holding(60) ELSE Holding(40)],
      [s \in Symbols |-> IF s = "A" THEN Holding(100) ELSE Holding(200)] }
\* liquidation values around the 1.00 threshold and around 1000.00, and mark
\* prices, that the brokerage can report
ConvertEquities == {99, 100, 100000, 100500}
ConvertPrices == {100, 9305}
\* values of TRADE_WITH, PADDING and SHARE_ROUND the environment can hold
TradeWithValues == {50, 100}
PaddingValues == {0, 1000}
ShareRounds == {"near", "down"}

InitConvert ==
    /\ modeEnv = "live"
    /\ tradeSource \in TradeSources
    /\ TRADE_WITH \in TradeWithValues
    /\ PADDING \in PaddingValues
    /\ SHARE_ROUND \in ShareRounds
    /\ conv = NoConv
    /\ sellWait = NoWait
    /\ http = NoRequest
    /\ waiter = NotWaiting
    /\ consecutive_errors = 0
    /\ unserved = TRUE
    /\ tokenValid \in BOOLEAN
    /\ source \in ConvertSources
    /\ held = [a \in Accounts |-> EmptyMap]
    /\ orders = <<>>
    /\ cancelCalls = {}
    /\ savedFile = NoFile
    /\ backupFile = NoFile
    /\ pc = "attempt"
    /\ failed_accounts = {}
    /\ successful_accounts = {}
    /\ percentages = Fetch(source)
    /\ acctIdx = 1
    /\ attempt \in 0..RETRY
    /\ tickers = EmptyMap
    /\ added_keys = EmptyMap
    /\ removed_keys = EmptyMap
    /\ sell_orders = <<>>
    /\ count = 0
    /\ ev = Event("execute", AccountNums[1], "none", 0)
    /\ lowBalAccts = {}
    /\ timedOut = {}

NextConvert == Attempt(ConvertEquities, ConvertPrices)

SpecConvert == InitConvert /\ [][NextConvert]_vars

\* ------------------------------ the loop with a source that stays the same
\* the main loop while the provider's holdings do not change and the session
\* stays valid; it starts an iteration with any snapshot file and any accounts
\* already failed
InitSettle ==
    /\ modeEnv \in {"live", "debug"}
    /\ tradeSource \in TradeSources
    /\ TRADE_WITH = 100
    /\ PADDING = 0
    /\ SHARE_ROUND = "down"
    /\ conv = NoConv
    /\ sellWait = NoWait
    /\ http = NoRequest
    /\ waiter = NotWaiting
    /\ consecutive_errors = 0
    /\ unserved = FALSE
    /\ tokenValid = TRUE
    /\ source \in Sources
    /\ held \in [Accounts -> HeldAtStart]
    /\ \A a \in Accounts \ {AccountNums[1]} : held[a] = EmptyMap
    /\ orders = <<>>
    /\ cancelCalls = {}
    /\ savedFile \in {NoFile, EmptyFile, UnparsableFile}
                     \cup {YamlDump(Fetch(h)) : h \in {x \in Sources : ~FetchRaises(x)}}
    /\ backupFile = NoFile
    /\ pc = "loop_top"
    /\ failed_accounts \in SUBSET Accounts
    /\ successful_accounts = {}
    /\ percentages = Unassigned
    /\ acctIdx = 1
    /\ attempt = 0
    /\ tickers = EmptyMap
    /\ added_keys = EmptyMap
    /\ removed_keys = EmptyMap
    /\ sell_orders = <<>>
    /\ count = 0
    /\ ev = Event("start", "none", "none", 0)
    /\ lowBalAccts = {}
    /\ timedOut = {}

\* the steps of the process with a valid session
ProgramSettle ==
    \/ LoopTop
    \/ check_for_change
    \/ get_percentages
    \/ AccountLoop
    \/ breakdown_account_by_quotes
    \/ buy_tickers_for_the_day
    \/ sell_tickers
    \/ PollSell
    \/ buy_tickers
    \/ Backoff
    \/ SaveGate
    \/ Sleep
    \/ IterError

NextSettle ==
    \/ ProgramSettle
    \/ BrokerFill

\* the process is a single thread that is never descheduled for good
SpecSettle == InitSettle /\ [][NextSettle]_vars /\ WF_vars(ProgramSettle)

\* ------------------------------------- one attempt of an account, any inputs
\* copy_trade.py 36-45: the conversion and then the pass, for any configured
\* TRADE_WITH, PADDING and SHARE_ROUND
NextAccount ==
    \/ NextConvert
    \/ buy_tickers_for_the_day
    \/ sell_tickers
    \/ PollSell
    \/ buy_tickers
    \/ BrokerFill

SpecAccount == InitConvert /\ [][NextAccount]_vars

\* ------------------------------------------------- the scripts' own state
\* the copy-trade loop of copy_trade.py is not running: the state its
\* variables have in the specifications of composer_api._get and of
\* run_at_355pm.py, which run without it
LoopNotRunning ==
    /\ modeEnv = "live"
    /\ tradeSource = "composer"
    /\ TRADE_WITH = 100
    /\ PADDING = 0
    /\ SHARE_ROUND = "down"
    /\ conv = NoConv
    /\ sellWait = NoWait
    /\ consecutive_errors = 0
    /\ unserved = FALSE
    /\ tokenValid = TRUE
    /\ source = EmptyMap
    /\ held = [a \in Accounts |-> EmptyMap]
    /\ orders = <<>>
    /\ cancelCalls = {}
    /\ savedFile = NoFile
    /\ backupFile = NoFile
    /\ pc = "loop_top"
    /\ failed_accounts = {}
    /\ successful_accounts = {}
    /\ percentages = Unassigned
    /\ acctIdx = 1
    /\ attempt = 0
    /\ tickers = EmptyMap
    /\ added_keys = EmptyMap
    /\ removed_keys = EmptyMap
    /\ sell_orders = <<>>
    /\ count = 0
    /\ ev = Event("start", "none", "none", 0)
    /\ lowBalAccts = {}
    /\ timedOut = {}

loopVars == <<configVars, conv, sellWait, consecutive_errors, unserved,
              tokenValid, source, brokerVars, fileVars, pc, failed_accounts,
              successful_accounts, percentages, acctIdx, attempt, tickers,
              added_keys, removed_keys, sell_orders, count, ev, lowBalAccts,
              timedOut>>

\* ------------------------------------------------------- composer_api._get
\* composer_api.py 29: retries: int = 3, which no caller overrides
retries == 3

\* what one client.get can come to: a 2xx answer whose body parses, a 2xx
\* answer whose body resp.json() cannot parse, status 429, another status
\* >= 400, httpx.TimeoutException, httpx.RequestError
Responses == {"ok", "ok_unparsable", "rate_limited", "error_status",
              "timeout", "request_error"}

\* composer_api.py 39: the for loop takes its next index; after the last one
\* the function body ends, which in Python returns None
NextAttempt(h, r) ==
    IF h.attempt + 1 < retries
    THEN [h EXCEPT !.attempt = @ + 1, !.log = Append(@, r)]
    ELSE [h EXCEPT !.pc = "done", !.attempt = @ + 1, !.log = Append(@, r),
                   !.result = "None"]

\* _get ends, returning the parsed body or raising
Ended(h, r, result) ==
    [h EXCEPT !.pc = "done", !.log = Append(@, r), !.result = result]

\* composer_api.py 39-70: one iteration of the retry loop
\*   429           : sleep Retry-After, continue (44-48)
\*   status >= 400 : raise ComposerAPIError, which no except clause of the
\*                   loop catches (50-57)
\*   otherwise     : return resp.json(), whose ValueError on a body that is
\*                   not JSON is not caught either (59)
\*   timeout or request error: raise ComposerAPIError on the last index,
\*                   else sleep 2 ** attempt and go on (61-70)
_get ==
    /\ http.pc = "request"
    /\ \E r \in Responses :
        http' = CASE r = "rate_limited" -> NextAttempt(http, r)
                  [] r = "error_status" -> Ended(http, r, "ComposerAPIError")
                  [] r = "ok" -> Ended(http, r, "body")
                  [] r = "ok_unparsable" -> Ended(http, r, "ValueError")
                  [] r \in {"timeout", "request_error"} ->
                        IF http.attempt = retries - 1
                        THEN Ended(http, r, "ComposerAPIError")
                        ELSE NextAttempt(http, r)
    /\ UNCHANGED <<loopVars, waiter>>

\* composer_api.py 72-80: list_accounts calls _get(ACCOUNTS_PATH); on its
\* return it reads response.get('accounts', []), an AttributeError when the
\* response is None, and re-raises whatever was raised
list_accounts ==
    /\ \/ /\ http.pc = "idle"
          /\ http' = [http EXCEPT !.pc = "request"]
       \/ /\ http.pc = "done"
          /\ http' = [http EXCEPT !.pc = "listed",
                                  !.result = IF @ = "None" THEN "AttributeError" ELSE @]
    /\ UNCHANGED <<loopVars, waiter>>

InitGet ==
    /\ LoopNotRunning
    /\ http = NoRequest
    /\ waiter = NotWaiting

NextGet ==
    \/ list_accounts
    \/ _get

SpecGet == InitGet /\ [][NextGet]_vars


\* ------------------------------------------------------- run_at_355pm.py
\* run_at_355pm.py 23: now.replace(hour=15, minute=55, second=0), as the
\* second of the Eastern day
TargetSecond == 57300

\* run_at_355pm.py 27: datetime.timedelta(days=1), in seconds
DaySeconds == 86400

\* Eastern times of day at which main is started: midnight, the second
\* before 15:55:00, 15:55:00 itself, and an evening hour
StartTimes == {0, TargetSecond - 1, TargetSecond, 72000}

\* run_at_355pm.py 23-29: (target_time - now).total_seconds(), the target
\* being moved to tomorrow when now >= target_time
time_until_target(now) ==
    IF now >= TargetSecond
    THEN TargetSecond + DaySeconds - now
    ELSE TargetSecond - now

\* run_at_355pm.py 36-41: the length of the sleep
Nap(until) ==
    IF until > 3600 THEN 3600
    ELSE IF until > 60 THEN 60
    ELSE 1

\* run_at_355pm.py 21-41: the body of `while True`, which has no return and
\* no break: read the clock and choose the sleep (22-36), then sleep and
\* start the body again (37-41)
wait_until_355pm_eastern ==
    /\ \/ /\ waiter.pc = "check"
          /\ waiter' = [waiter EXCEPT !.pc = "sleep",
                                      !.nap = Nap(time_until_target(waiter.now))]
       \/ /\ waiter.pc = "sleep"
          /\ waiter' = [pc |-> "check",
                        now |-> (waiter.now + waiter.nap) % DaySeconds,
                        nap |-> 0]
    /\ UNCHANGED <<loopVars, http>>

\* run_at_355pm.py 241-250: main prints its banner and calls
\* wait_until_355pm_eastern; line 253, record_conversion_data(), follows the
\* return of that call
main ==
    /\ waiter.pc = "idle"
    /\ waiter' = [waiter EXCEPT !.pc = "check"]
    /\ UNCHANGED <<loopVars, http>>

InitWait ==
    /\ LoopNotRunning
    /\ http = NoRequest
    /\ waiter \in {[NotWaiting EXCEPT !.now = t] : t \in StartTimes}

NextWait ==
    \/ main
    \/ wait_until_355pm_eastern

\* the script is a single thread that is never descheduled for good
SpecWait == InitWait /\ [][NextWait]_vars /\ WF_vars(NextWait)


\* ------------------------------------------------------------- properties
\* the state of the order execution orchestrator (spec 4.5)
OrchState ==
    IF pc = "btd" THEN "INIT"
    ELSE IF pc = "selling" THEN "SELLING"
    ELSE IF pc = "await_sell" THEN "AWAITING_SELL_COMPLETION"
    ELSE IF pc = "buying" THEN "BUYING"
    ELSE IF ev.err = "SellTimeout" THEN "ABORTED"
    ELSE IF ev.kind = "returned_true" THEN "DONE"
    ELSE "NONE"
\* positions of the process inside execute_trades_for_account
InAttempt == {"attempt", "btd", "selling", "await_sell", "buying"}
SellIds == {i \in 1..Len(orders) : orders[i].side = "SELL"}
BuyIds == {i \in 1..Len(orders) : orders[i].side = "BUY"}

\* C1: the snapshot file is created or overwritten only by the save gate of an
\* iteration in which at least one account succeeded.
C1_SnapshotOnlyAfterSuccess ==
    [][savedFile' # savedFile =>
          (pc = "save_gate" /\ successful_accounts # {})]_vars

\* C2: in LIVE mode, after a pass that ended without error and whose orders
\* all filled, the account holds the target share count of every symbol.
C2_HeldEqualsTarget ==
    (/\ Lower(modeEnv) = "live"
     /\ ev.kind = "returned_true"
     /\ \A i \in 1..Len(orders) : orders[i].status = "FILLED")
    => \A s \in Symbols : Qty(held[ev.acct], s) = Qty(tickers, s)

\* C3: in LIVE mode a buy order exists only when every sell order of the pass
\* is FILLED, and the orchestrator enters SELLING only from INIT,
\* AWAITING_SELL_COMPLETION only from SELLING, BUYING and ABORTED only from
\* AWAITING_SELL_COMPLETION.
C3_NoBuyBeforeSellsFilled ==
    /\ [](Lower(modeEnv) = "live" =>
            (BuyIds # {} => \A i \in SellIds : orders[i].status = "FILLED"))
    /\ [][(Lower(modeEnv) = "live" /\ OrchState' # OrchState) =>
            /\ OrchState' = "SELLING" => OrchState = "INIT"
            /\ OrchState' = "AWAITING_SELL_COMPLETION" => OrchState = "SELLING"
            /\ OrchState' = "BUYING" => OrchState = "AWAITING_SELL_COMPLETION"
            /\ OrchState' = "ABORTED" => OrchState = "AWAITING_SELL_COMPLETION"
            /\ OrchState' = "DONE" => OrchState = "BUYING"]_vars
C3_Witness ==
    /\ Lower(modeEnv) = "live"
    /\ BuyIds # {}
    /\ SellIds # {}

\* C4: in LIVE mode, a poll that finds the sell orders not all FILLED with the
\* counter at 0 aborts the pass with an error; in the aborted pass a cancel call
\* was made for every sell order and there is no buy order.
C4_SellTimeoutAborts ==
    /\ [](OrchState = "ABORTED" =>
            /\ ev.kind \in {"raised", "returned_false"}
            /\ cancelCalls = SellIds
            /\ BuyIds = {})
    /\ [][(/\ pc = "await_sell"
           /\ count = 0
           /\ \E i \in SellIds : orders[i].status # "FILLED"
           /\ held' = held)
          => (OrchState' = "ABORTED" /\ ev'.err = "SellTimeout")]_vars
C4_Witness ==
    /\ OrchState = "ABORTED"
    /\ Cardinality(cancelCalls) = 2

\* C5: with a MODE other than live no order is placed, polled or cancelled,
\* and the pass returns success right after the diff.
C5_DebugPlacesNoOrder ==
    Lower(modeEnv) # "live" =>
        /\ orders = <<>>
        /\ cancelCalls = {}
        /\ pc \notin {"selling", "await_sell", "buying"}
        /\ ev.kind \in {"diffed", "sold", "sells_filled", "tick", "returned_true"}
              => ev.kind = "returned_true"
        /\ ev.err \in {"none", "Transient"}
C5_Witness ==
    /\ modeEnv = "paper"
    /\ ev.kind = "returned_true"
    /\ added_keys # EmptyMap
    /\ removed_keys # EmptyMap

\* C6: an account that failed with the low-balance error is never inside
\* execute_trades_for_account again.
C6_LowBalanceQuarantined ==
    pc \in InAttempt \cup {"backoff"} => CurAcct \notin lowBalAccts
C6_Witness ==
    /\ ev.kind = "skipped"
    /\ ev.acct \in lowBalAccts

\* C7: only an account that failed with the low-balance error is skipped by
\* the account loop.
C7_OnlyLowBalanceSkipped ==
    ev.kind = "skipped" => ev.acct \in lowBalAccts

\* C8: execute_trades_for_account returns failure after an error that is not
\* low balance only when RETRY + 1 attempts were made, retries only while
\* fewer were made, and after a successful attempt is back in the account loop.
C8_RetryCount ==
    /\ (ev.kind = "returned_false" /\ ev.err # "LowBalance") => ev.n = RETRY + 1
    /\ ev.kind = "raised" => (ev.n <= RETRY /\ pc = "backoff")
    /\ ev.kind = "returned_true" =>
          /\ pc = "acct_loop"
          /\ ev.n <= RETRY + 1
          /\ ev.acct \in successful_accounts
C8_Witness ==
    /\ ev.kind = "returned_false"
    /\ ev.err = "QuoteUnavailable"
    /\ ev.n = RETRY + 1

\* C9: the low-balance error makes execute_trades_for_account return failure
\* in the same step: no wait, no further attempt, no order, and the account
\* loop is at the next account.
C9_LowBalanceReturnsAtOnce ==
    /\ [](ev.err = "LowBalance" =>
            /\ ev.kind = "returned_false"
            /\ pc = "acct_loop"
            /\ ev.acct \in failed_accounts
            /\ acctIdx <= Len(AccountNums) => CurAcct # ev.acct)
    /\ [][(ev'.err = "LowBalance" /\ ev' # ev) =>
            /\ orders' = orders
            /\ acctIdx' = acctIdx + 1]_vars
C9_Witness ==
    /\ ev.err = "LowBalance"
    /\ ev.n = 2
    /\ acctIdx = 2

\* C10 as claimed: an account that had a sell timeout is not attempted again
\* in the same pass over the accounts.
C10_NoAttemptAfterSellTimeout ==
    pc \in InAttempt => CurAcct \notin timedOut
\* C10 as amended: a sell timeout ends the attempt without a buy order; the
\* account is retried after the backoff wait unless RETRY + 1 attempts were made.
C10_SellTimeoutRetried ==
    ev.err = "SellTimeout" =>
        /\ BuyIds = {}
        /\ IF ev.n <= RETRY
           THEN ev.kind = "raised" /\ pc = "backoff"
           ELSE ev.kind = "returned_false" /\ pc = "acct_loop"
C10_Witness ==
    /\ ev.err = "SellTimeout"
    /\ ev.kind = "raised"

\* the saved snapshot is readable and holds the symbols of the source, each
\* with the quantity of the source
SnapshotMatches ==
    /\ savedFile.kind = "yaml"
    /\ LET saved == SafeLoad(savedFile).assets
       IN  /\ DOMAIN saved = DOMAIN source
           /\ \A a \in DOMAIN source : saved[a].qty = source[a].qty
\* the step is a call of check_for_change
CheckStep == pc = "check_change" /\ pc' # "check_change"

\* C11: when a change was detected, no account has succeeded since and the
\* source holdings are the same, the next change detection reports a change.
C11_SameChangeReportedAgain ==
    [][(CheckStep /\ unserved) => ev'.kind = "change"]_vars

\* C12 as claimed: with a saved snapshot that holds the symbols and quantities
\* of the source, every call of check_for_change returns False.
C12_UnchangedReportsNoChange ==
    [][(CheckStep /\ SnapshotMatches) => ev'.kind = "no_change"]_vars
\* C12 as amended: with such a snapshot every call of check_for_change whose
\* provider fetch succeeds returns False and leaves the snapshot as it is, and
\* the cycle goes to its sleep with no conversion and no order.
C12_UnchangedFetchedReportsNoChange ==
    /\ [][(CheckStep /\ SnapshotMatches /\ ev'.err # "provider") =>
            /\ ev'.kind = "no_change"
            /\ pc' = "sleep"
            /\ UNCHANGED <<savedFile, backupFile, percentages, tickers, orders>>]_vars
    /\ [](ev.kind = "no_change" =>
            /\ pc = "sleep"
            /\ percentages = Unassigned
            /\ tickers = EmptyMap
            /\ orders = <<>>)
C12_Witness ==
    /\ ev.kind = "no_change"
    /\ SnapshotMatches
    /\ backupFile # NoFile

\* C13: with a readable snapshot and a successful fetch, check_for_change
\* returns True exactly when the symbols or a quantity differ, whatever the
\* percentages, prices, market values and totals are; with no snapshot file it
\* returns True.
C13_ChangeIffSymbolsOrQtyDiffer ==
    [][(CheckStep /\ ev'.err # "provider") =>
          /\ savedFile = NoFile => ev'.kind = "change"
          /\ savedFile.kind = "yaml" =>
                (ev'.kind = "change" <=> ~SnapshotMatches)
          /\ ev'.kind \in {"change", "no_change"}]_vars
C13_Witness ==
    /\ ev.kind = "no_change"
    /\ SafeLoad(savedFile).assets # Fetch(source).assets
    /\ SafeLoad(savedFile).percentages # Fetch(source).percentages
    /\ SafeLoad(savedFile).portfolio_total # Fetch(source).portfolio_total

\* C14: the token check that finds the session invalid leads to the wait loop
\* and never to change detection; a step taken in the wait loop while the
\* session is invalid stays there and touches no snapshot, no conversion
\* result and no order.
C14_InvalidTokenHalts ==
    /\ [](ev.kind = "token_invalid" => pc = "token_wait")
    /\ [][(pc = "loop_top" /\ ~tokenValid) => pc' # "check_change"]_vars
    /\ [][(pc = "token_wait" /\ ~tokenValid) =>
            /\ pc' = "token_wait"
            /\ UNCHANGED <<savedFile, backupFile, percentages, tickers, orders,
                           held, unserved>>]_vars
C14_Witness ==
    /\ pc = "token_wait"
    /\ ~tokenValid
    /\ ev.kind = "token_sleep"
    /\ savedFile.kind = "yaml"

\* C15: once the session is valid again, and stays valid, while the loop
\* waits, change detection is eventually reached.
C15_ResumesAfterRevalidation ==
    []((pc = "token_wait" /\ []tokenValid) => <>(pc = "check_change"))

\* positions of the process inside the loop over the accounts
AccountLoopPcs == InAttempt \cup {"acct_loop", "backoff"}
\* each account the loop comes to is attempted unless it is quarantined, the
\* accounts are taken in configured order, and a failure return moves on to
\* the next account
AccountsInOrder ==
    /\ [][(/\ pc = "acct_loop"
           /\ acctIdx <= Len(AccountNums)
           /\ pc' # pc \/ acctIdx' # acctIdx)
          => IF CurAcct \in failed_accounts
             THEN pc' = "acct_loop" /\ acctIdx' = acctIdx + 1
             ELSE pc' = "attempt" /\ acctIdx' = acctIdx]_vars
    /\ [][(pc \in AccountLoopPcs /\ pc' \in AccountLoopPcs) =>
            acctIdx' \in {acctIdx, acctIdx + 1}]_vars
    /\ [][(ev'.kind = "returned_false" /\ ev' # ev) =>
            (pc' = "acct_loop" /\ acctIdx' = acctIdx + 1)]_vars
    /\ [](pc = "save_gate" =>
            Accounts \subseteq (successful_accounts \cup failed_accounts))

\* C16 as claimed: the loop over the accounts is left only at its end, whatever
\* the outcome of an account, and by then every account was attempted in
\* configured order or skipped as quarantined.
C16_EveryAccountAttempted ==
    /\ AccountsInOrder
    /\ [][(pc \in AccountLoopPcs) =>
            (pc' \in AccountLoopPcs \/ pc' = "save_gate")]_vars
\* C16 as amended: the same, except that an invalid-token error of an account
\* ends the cycle at once, with the remaining accounts not attempted.
C16_EveryAccountAttemptedUnlessTokenError ==
    /\ AccountsInOrder
    /\ [][(pc \in AccountLoopPcs /\ pc' \notin AccountLoopPcs \cup {"save_gate"}) =>
            (pc' = "iter_error" /\ ev'.err = "InvalidToken")]_vars
C16_Witness ==
    /\ pc = "save_gate"
    /\ AccountNums[1] \in timedOut \cap failed_accounts
    /\ AccountNums[2] \in successful_accounts

\* an exception is handled where the code catches it: one raised by the token
\* check or re-raised by an account goes to the handler of the main loop, one
\* raised while fetching the percentages ends the iteration, one raised by
\* save_changes leads to the sleep of the iteration; the process can always
\* take a step
ExceptionsCaught ==
    /\ [](ev.kind \in {"loop_raised", "reraised"} => pc = "iter_error")
    /\ [](ev.kind = "get_pct_failed" => pc = "loop_top")
    /\ [](ev.kind = "save_failed" => pc = "sleep")
    /\ [][(pc = "iter_error" /\ pc' # pc) => pc' = "loop_top"]_vars
    /\ [](ENABLED Program)

\* C17 as claimed: every exception is caught, the loop goes on, and the next
\* iteration begins after a delay of PERIOD.
C17_NextIterationAfterPeriod ==
    /\ ExceptionsCaught
    /\ [][(pc' = "loop_top" /\ pc # "loop_top") => ev'.n = PERIOD]_vars
\* C17 as amended: the same, except that after a ComposerAPIError raised while
\* fetching the percentages the next iteration begins after 60 seconds, and
\* after 60 + 300 seconds when it is the fifth such error in a row.
C17_NextIterationAfterPeriodOrApiWait ==
    /\ ExceptionsCaught
    /\ [][(pc' = "loop_top" /\ pc # "loop_top") =>
            ev'.n = IF ev'.err # "ComposerAPIError" THEN PERIOD
                    ELSE IF consecutive_errors + 1 < max_consecutive_errors
                    THEN ApiErrorWait
                    ELSE ApiErrorWait + LongWait]_vars
C17_Witness ==
    /\ ev.kind = "get_pct_failed"
    /\ ev.err = "ComposerAPIError"
    /\ ev.n = ApiErrorWait + LongWait

\* the diff was computed and the holdings it read are still the holdings
DiffDone ==
    \/ pc = "selling"
    \/ Mode(modeEnv) = "DEBUG" /\ ev.kind = "returned_true"

\* C18: after the fold, a symbol in both maps with different quantities has
\* the share difference as its order quantity: new - old in added_keys when
\* new > old, old - new in removed_keys when new < old.
C18_FoldYieldsDifference ==
    DiffDone =>
        LET old == held[ev.acct]
            new == tickers
        IN  \A k \in DOMAIN old \cap DOMAIN new :
                /\ new[k] > old[k] =>
                      (k \in DOMAIN added_keys /\ added_keys[k] = new[k] - old[k])
                /\ new[k] < old[k] =>
                      (k \in DOMAIN removed_keys /\ removed_keys[k] = old[k] - new[k])

\* C19: before the fold, added is the target symbols absent from held with
\* their target quantities, removed the held symbols absent from target with
\* their held quantities, changed the symbols in both whose quantities differ
\* with {old, new}; a symbol in both with equal quantities is in none, and
\* after the fold in neither added_keys nor removed_keys.
C19_DiffSets ==
    /\ pc = "btd" =>
          LET old == held[CurAcct]
              new == tickers
              a == AddedKeys(old, new)
              r == RemovedKeys(old, new)
              c == ChangedKeys(old, new)
          IN  /\ DOMAIN a = DOMAIN new \ DOMAIN old
              /\ \A k \in DOMAIN a : a[k] = new[k]
              /\ DOMAIN r = DOMAIN old \ DOMAIN new
              /\ \A k \in DOMAIN r : r[k] = old[k]
              /\ DOMAIN c = {k \in Symbols : k \in DOMAIN old /\ k \in DOMAIN new
                                               /\ old[k] # new[k]}
              /\ \A k \in DOMAIN c : c[k].old = old[k] /\ c[k].new = new[k]
    /\ DiffDone =>
          LET old == held[ev.acct]
              new == tickers
          IN  /\ \A k \in DOMAIN new \ DOMAIN old :
                    k \in DOMAIN added_keys /\ added_keys[k] = new[k]
              /\ \A k \in DOMAIN old \ DOMAIN new :
                    k \in DOMAIN removed_keys /\ removed_keys[k] = old[k]
              /\ \A k \in DOMAIN old \cap DOMAIN new :
                    old[k] = new[k] =>
                        k \notin DOMAIN added_keys \cup DOMAIN removed_keys
              /\ DOMAIN added_keys \subseteq DOMAIN new
              /\ DOMAIN removed_keys \subseteq DOMAIN old
              /\ DOMAIN added_keys \cap DOMAIN removed_keys = {}
C19_Witness ==
    /\ pc = "selling"
    /\ DOMAIN added_keys = {"A"}
    /\ DOMAIN removed_keys = {"B"}
    /\ DOMAIN held[ev.acct] = {"B"}

\* the orders `ids` are one order of `side` for each symbol of m whose quantity
\* is not 0, for that quantity, and nothing else
OneOrderPerSymbol(ids, side, m) ==
    /\ \A k \in DOMAIN m :
          Cardinality({i \in ids : orders[i].sym = k}) = IF m[k] # 0 THEN 1 ELSE 0
    /\ \A i \in ids :
          /\ orders[i].sym \in DOMAIN m
          /\ orders[i].qty = m[orders[i].sym]
          /\ orders[i].side = side
          /\ orders[i].acct = ev.acct

\* C20: in LIVE mode the sell orders placed are one per symbol of removed_keys
\* with a quantity other than 0, the buy orders one per such symbol of
\* added_keys; a symbol with quantity 0 gets no order and the pass goes on.
C20_OneOrderPerNonZeroSymbol ==
    /\ ev.kind \in {"sold", "tick", "sells_filled"} =>
          (OneOrderPerSymbol(SellIds, "SELL", removed_keys) /\ BuyIds = {})
    /\ (Mode(modeEnv) = "LIVE" /\ ev.kind = "returned_true") =>
          /\ OneOrderPerSymbol(SellIds, "SELL", removed_keys)
          /\ OneOrderPerSymbol(BuyIds, "BUY", added_keys)
C20_Witness ==
    /\ Mode(modeEnv) = "LIVE"
    /\ ev.kind = "returned_true"
    /\ "B" \in DOMAIN removed_keys /\ removed_keys["B"] = 0
    /\ "A" \in DOMAIN added_keys /\ added_keys["A"] # 0
    /\ BuyIds # {}

\* ---------------------------------------------------------------------------
\* C21: in LIVE mode a pass that reports success has seen every buy order it
\* placed reach FILLED (schwab_api.py 450-455 polls `while a buy order is not
\* complete`; but buy_tickers, 358-378, returns None, so the poll is skipped).
C21_SuccessOnlyAfterBuysFilled ==
    (Mode(modeEnv) = "LIVE" /\ ev.kind = "returned_true") =>
        \A i \in BuyIds : orders[i].status = "FILLED"

\* ---------------------------------------------------------------------------
\* C22: the conversion of one account leaves the cycle's allocation snapshot
\* as the normalizer produced it (schwab_api.py 283-286 assigns the dollar
\* amounts into the dict it was given).
C22_ConversionLeavesSnapshot ==
    [][(pc = "attempt") => percentages' = percentages]_vars

\* ---------------------------------------------------------------------------
\* C23: every snapshot get_percentages returns, from alpaca or from composer,
\* has the entry "checksum" in its percentages, equal to the sum of the others.
C23_SnapshotCarriesChecksum ==
    ev.kind = "got_pct" =>
        LET p == percentages.percentages
        IN  /\ "checksum" \in DOMAIN p
            /\ p["checksum"] = SumOver(p, DOMAIN p \ {"checksum"})

\* ---------------------------------------------------------------------------
\* the alpaca normalization has run on holdings whose portfolio_total is positive
NormalizedPositive ==
    /\ tradeSource = "alpaca"
    /\ pc # "get_pct"
    /\ PortfolioTotal(source) > 0
\* the sum of the percentages of the holdings, each rounded to two decimals
RoundedPctSum ==
    SumOver([s \in DOMAIN source |->
                RoundDiv(source[s].current_price * source[s].qty * 100,
                         PortfolioTotal(source))], DOMAIN source)

InvalidChecksumStep ==
    /\ pc = "get_pct"
    /\ ev'.kind = "get_pct_failed"
    /\ ev'.err = "InvalidChecksum"
\* this cycle's check_for_change wrote the snapshot file (holdings_source.py
\* 57-58 and 60-64)
WroteAtCheck == ev.kind = "change" /\ ev.err \in {"no_file", "empty_file"}

\* C25: a cycle whose normalization fails with Invalid Checksum is aborted; no
\* order is placed for any account and the snapshot file is not written in it.
C25_InvalidChecksumAbortsCycle ==
    [][InvalidChecksumStep =>
          /\ pc' = "loop_top"
          /\ orders = <<>> /\ orders' = <<>>
          /\ savedFile' = savedFile /\ backupFile' = backupFile
          /\ ~WroteAtCheck]_vars

\* ---------------------------------------------------------------------------
\* the brokerage has answered this attempt's lookup of the account value
ValueLookedUp == conv # NoConv

\* C26: get_account_trade_value fails with the low-balance error exactly when
\* the equity is below 1.00; otherwise it returns equity * TRADE_WITH / 100
\* - PADDING to the nearest cent.
C26_TradeValue ==
    ValueLookedUp =>
        /\ (ev.err = "LowBalance") <=> (conv.equity < 100)
        /\ conv.equity >= 100 =>
              LET exact == conv.equity * TRADE_WITH - 100 * PADDING
                  diff == 100 * conv.total - exact
              IN  2 * diff <= 100 /\ 2 * diff >= -100
C26_Witness ==
    /\ ev.kind = "converted"
    /\ conv.equity = 100500
    /\ TRADE_WITH = 50
    /\ PADDING = 1000
    /\ conv.total = 49250

\* ---------------------------------------------------------------------------
\* the step is a conversion that returned the target map
ConvertedStep == pc = "attempt" /\ ev'.kind = "converted"
\* x is n / d to the nearest integer
Nearest(x, n, d) == 2 * (d * x - n) <= d /\ 2 * (n - d * x) <= d

\* C27: for each symbol other than the checksum the dollar amount is
\* trade_value * pct / 100 to the nearest cent; the share count is the floor
\* of dollar / price under DOWN, so shares * price is at most the dollar
\* amount, and dollar / price to the nearest integer under NEAREST.
C27_DollarsAndShares ==
    [][ConvertedStep =>
          LET pcts == percentages.percentages
              dollars == percentages'.percentages
              total == conv'.total
              mark == conv'.mark
              syms == DOMAIN pcts \ {"checksum"}
          IN  /\ DOMAIN tickers' = syms
              /\ \A k \in syms :
                    /\ Nearest(dollars[k], total * pcts[k], 10000)
                    /\ IF SHARE_ROUND = "down"
                       THEN /\ tickers'[k] * mark <= dollars[k]
                            /\ (tickers'[k] + 1) * mark > dollars[k]
                       ELSE Nearest(tickers'[k], dollars[k], mark)
              /\ (total = 100000 /\ syms = {"A", "B"}
                    /\ pcts["A"] = 6000 /\ pcts["B"] = 4000) =>
                    (dollars["A"] = 60000 /\ dollars["B"] = 40000)
              /\ \A k \in syms :
                    /\ (SHARE_ROUND = "down" /\ dollars[k] = 100000 /\ mark = 9305)
                          => tickers'[k] = 10
                    /\ (SHARE_ROUND = "near" /\ dollars[k] = 100500 /\ mark = 9305)
                          => tickers'[k] = 11]_vars
C27_Witness ==
    /\ ev.kind = "converted"
    /\ SHARE_ROUND = "near"
    /\ conv.total = 100500
    /\ conv.mark = 9305
    /\ DOMAIN tickers = {"A"}
    /\ tickers["A"] = 11

\* ---------------------------------------------------------------------------
\* the step is a conversion whose quote lookup failed
QuoteFailedStep == pc = "attempt" /\ ev'.err = "QuoteUnavailable"

\* C28: when the quote lookup fails the attempt ends with the error before a
\* diff is computed: the next step is the backoff wait or the next account,
\* there is no target map and no diff, and no order is placed.
C28_QuoteFailureEndsAttempt ==
    [][QuoteFailedStep =>
          /\ ev'.kind \in {"raised", "returned_false"}
          /\ ev'.acct = CurAcct
          /\ pc' = IF ev'.kind = "raised" THEN "backoff" ELSE "acct_loop"
          /\ tickers' = EmptyMap
          /\ added_keys' = EmptyMap /\ removed_keys' = EmptyMap
          /\ orders' = orders /\ held' = held]_vars
C28_Witness ==
    /\ ev.err = "QuoteUnavailable"
    /\ ev.kind = "raised"
    /\ pc = "backoff"
    /\ conv.total > 0

\* ---------------------------------------------------------------------------
\* the step writes the snapshot file where one exists already
OverwriteStep == savedFile' # savedFile /\ savedFile # NoFile

\* C29: every overwrite of an existing snapshot file leaves in the backup file
\* the content the snapshot file had just before, and in the snapshot file a
\* new snapshot.
C29_BackupBeforeOverwrite ==
    [][OverwriteStep =>
          /\ backupFile' = savedFile
          /\ savedFile'.kind = "yaml"]_vars

\* ---------------------------------------------------------------------------
\* C30: the wait before the k-th retry of an account, k = 1..RETRY, is
\* PERIOD * k seconds; it follows an attempt that raised and was not the last,
\* and no wait follows the last failed attempt, a successful attempt or a
\* low-balance failure.
C30_ProgressiveBackoff ==
    /\ [](ev.kind = "waited" =>
            /\ attempt \in 1..RETRY
            /\ ev.n = PERIOD * attempt
            /\ pc = "attempt")
    /\ [](pc = "backoff" =>
            /\ ev.kind = "raised"
            /\ ev.n \in 1..RETRY
            /\ ev.err # "LowBalance")
    /\ [][(ev'.kind = "waited" /\ ev.kind # "waited") =>
            /\ pc = "backoff"
            /\ attempt' = attempt + 1
            /\ ev'.acct = ev.acct]_vars
    /\ [][(ev.kind \in {"returned_true", "returned_false", "reraised"}) =>
            ev'.kind # "waited"]_vars
C30_Witness ==
    /\ ev.kind = "waited"
    /\ attempt = 2
    /\ ev.n = 2 * PERIOD

\* ---------------------------------------------------------------------------
\* C31: in LIVE mode with a sell order placed, a pass whose sell orders are
\* never all FILLED at a poll polls SELL_TIMEOUT + 1 times and sleeps
\* SELL_TIMEOUT times before it cancels and raises; a pass that finds them all
\* FILLED at poll k has k <= SELL_TIMEOUT + 1, has slept k - 1 times, makes no
\* cancel call and goes on to the buy phase.
C31_SellPolls ==
    /\ (ev.err = "SellTimeout" /\ SellIds # {}) =>
          /\ sellWait.polls = SELL_TIMEOUT + 1
          /\ sellWait.ticks = SELL_TIMEOUT
          /\ cancelCalls = SellIds
    /\ (ev.kind = "sells_filled" /\ SellIds # {}) =>
          /\ sellWait.polls \in 1..(SELL_TIMEOUT + 1)
          /\ sellWait.ticks = sellWait.polls - 1
          /\ cancelCalls = {}
          /\ pc = "buying"
    /\ (pc = "await_sell" /\ SellIds # {}) =>
          /\ sellWait.polls <= SELL_TIMEOUT
          /\ sellWait.ticks = sellWait.polls
          /\ cancelCalls = {}
C31_Witness ==
    /\ ev.kind = "sells_filled"
    /\ SellIds # {}
    /\ sellWait.polls = SELL_TIMEOUT + 1

\* ---------------------------------------------------------------------------
\* the step is a call of check_for_change in which an exception was caught:
\* the fetch of the holdings raised, or the saved snapshot could not be loaded
CheckErrorStep == CheckStep /\ ev'.err \in {"provider", "unparsable"}

\* C32: a call of check_for_change that catches an error returns True and
\* raises nothing: the cycle goes on to the settling wait and get_percentages,
\* also when the saved snapshot holds the symbols and quantities of the source;
\* the call writes no file.
C32_CheckErrorReportsChange ==
    /\ [][CheckErrorStep =>
            /\ ev'.kind = "change"
            /\ pc' = "get_pct"
            /\ UNCHANGED <<savedFile, backupFile>>]_vars
    /\ [][(CheckStep /\ (savedFile = UnparsableFile)) => CheckErrorStep]_vars
    /\ [](ev.kind = "change" => pc = "get_pct")
C32_Witness ==
    /\ ev.kind = "change"
    /\ ev.err = "provider"
    /\ SnapshotMatches
    /\ pc = "get_pct"

\* ---------------------------------------------------------------------------
\* the step is an attempt of an account failing with an invalid-token error
TokenErrorStep == pc \in InAttempt /\ ev' # ev /\ ev'.err = "InvalidToken"

\* C33: an attempt that fails with an invalid-token error is re-raised with no
\* retry and no wait; the account is not added to the failed set, the rest of
\* the cycle (the remaining accounts, the save) is skipped even if an account
\* has succeeded in it, and the handler of the main loop leads to the token
\* check of the next iteration.
C33_InvalidTokenEndsCycle ==
    /\ [][TokenErrorStep =>
            /\ ev'.kind = "reraised"
            /\ ev'.acct = CurAcct
            /\ pc' = "iter_error"
            /\ UNCHANGED <<attempt, acctIdx, failed_accounts, successful_accounts,
                           savedFile, backupFile>>]_vars
    /\ [][(pc = "iter_error") =>
            /\ pc' \in {"iter_error", "loop_top"}
            /\ UNCHANGED <<failed_accounts, savedFile, backupFile, held>>
            /\ \A i \in 1..Len(orders') : i <= Len(orders) /\ orders'[i] = orders[i]]_vars
    /\ [](ev.kind = "reraised" => (pc = "iter_error" /\ ev.err = "InvalidToken"))
    /\ [](ev.kind = "recovered" => pc = "loop_top")
C33_Witness ==
    /\ ev.kind = "reraised"
    /\ ev.acct = AccountNums[2]
    /\ AccountNums[1] \in successful_accounts
    /\ savedFile.kind # "yaml"

\* ---------------------------------------------------------------------------
\* the diff of this pass has just been made from held[ev.acct] and tickers
JustDiffed ==
    \/ ev.kind = "diffed"
    \/ Mode(modeEnv) = "DEBUG" /\ ev.kind = "returned_true"

\* C34: after the fold no symbol is in both removed_keys and added_keys, and a
\* symbol held in the target quantity is in neither; no symbol has both a sell
\* order and a buy order in one pass.
C34_SellAndBuyDisjoint ==
    /\ DOMAIN added_keys \cap DOMAIN removed_keys = {}
    /\ JustDiffed =>
          \A k \in DOMAIN held[ev.acct] \cap DOMAIN tickers :
              held[ev.acct][k] = tickers[k] =>
                  k \notin DOMAIN added_keys \cup DOMAIN removed_keys
    /\ \A i \in SellIds : \A j \in BuyIds : orders[i].sym # orders[j].sym
C34_Witness ==
    /\ ev.kind = "returned_true"
    /\ SellIds # {} /\ BuyIds # {}
    /\ \E k \in DOMAIN tickers \cap DOMAIN added_keys :
          \E i \in BuyIds : orders[i].sym = k /\ tickers[k] > 1
    /\ \E k \in DOMAIN tickers \cap DOMAIN removed_keys : tickers[k] >= 1

\* ---------------------------------------------------------------------------
\* C35: every order placed is for a strictly positive number of shares, for
\* every equity of at least 1.00 and every TRADE_WITH and PADDING, a PADDING
\* above equity * TRADE_WITH / 100 included.
C35_OrdersPositive ==
    \A i \in 1..Len(orders) : orders[i].qty > 0

\* ---------------------------------------------------------------------------
\* every cycle that detects a change comes to its save gate with an account
\* that was executed successfully
AccountSucceeds ==
    [](ev.kind = "change" => <>(pc = "save_gate" /\ successful_accounts # {}))
\* the token check answers: the session stays valid
SessionValid == tokenValid /\ ev.kind # "loop_raised"
\* save_changes raises nothing
SaveWorks == ev.kind # "save_failed"
\* the provider fetch of check_for_change raises nothing
CheckFetchWorks == ev.err # "provider"
\* the loop only checks the token, finds no change and sleeps
Quiet == pc \in {"loop_top", "check_change", "sleep"}
\* a detected change is followed by a save, and from some cycle on every cycle
\* reports no change and places no order
Converges ==
    /\ <>(ev.kind = "change") => <>(ev.kind = "saved")
    /\ <>[]Quiet

\* C36 as claimed: with the source unchanged, the session valid and an account
\* succeeding in every cycle that detects a change (save_changes included), a
\* cycle eventually saves the snapshot and from then on every cycle reports no
\* change and places no order.
C36_Converges ==
    (AccountSucceeds /\ []SessionValid /\ []SaveWorks) => Converges
\* C36 as amended: the same when, in addition, the fetch in check_for_change
\* raises no error; when the fetch, the token check and save_changes stop
\* raising only after some time, the cycles still end up reporting no change.
C36_ConvergesWithoutFaults ==
    /\ (AccountSucceeds /\ []SessionValid /\ []SaveWorks /\ []CheckFetchWorks)
          => Converges
    /\ (AccountSucceeds /\ <>[]SessionValid /\ <>[]SaveWorks /\ <>[]CheckFetchWorks)
          => <>[]Quiet
C36_Witness ==
    /\ ev.kind = "no_change"
    /\ SnapshotMatches
    /\ backupFile.kind = "yaml"
    /\ AccountNums[1] \in failed_accounts

\* ---------------------------------------------------------------------------
\* C37: _get issues at most retries HTTP requests and always ends either by
\* returning the parsed body of a successful response or by raising
\* ComposerAPIError; it never returns without a response body, including when
\* every attempt is answered 429 or fails with a timeout or a request error.
\* (Stated for exchanges in which every 2xx body is valid JSON.)
BodiesParse == \A i \in 1..Len(http.log) : http.log[i] # "ok_unparsable"

C37_GetReturnsBodyOrRaises ==
    /\ Len(http.log) <= retries
    /\ (http.pc = "done" /\ BodiesParse) =>
            http.result \in {"body", "ComposerAPIError"}

\* what holds of _get: it makes at most retries requests, it ends after
\* every exchange, and it returns None exactly when the last index of the
\* loop was answered 429
GetRequestsBounded ==
    /\ Len(http.log) <= retries
    /\ http.pc = "request" => http.attempt < retries
    /\ http.result = "None" <=>
            /\ http.pc = "done"
            /\ Len(http.log) = retries
            /\ http.log[retries] = "rate_limited"

\* ---------------------------------------------------------------------------
\* C38: wait_until_355pm_eastern eventually returns once the US/Eastern clock
\* reaches 15:55, so that main then calls record_conversion_data.
AtTarget == waiter.pc = "check" /\ waiter.now = TargetSecond

C38_WaitReturns == AtTarget ~> (waiter.pc \in {"returned", "recording"})

\* what holds of the wait: it is in its loop for ever, it sees 15:55:00 on
\* the clock again and again, and what it does then is to sleep for an hour
WaitStaysInLoop ==
    /\ waiter.pc \in {"idle", "check", "sleep"}
    /\ (waiter.pc = "sleep" /\ waiter.now = TargetSecond) => waiter.nap = 3600

WaitSeesTarget == []<>AtTarget

====
